---- MODULE Spec2Model ----
(***************************************************************************)
(* Model of quota.5m.py, the SwiftBar plugin that lists the auth files of  *)
(* a CLIProxyAPI management server, fetches the Codex and Antigravity      *)
(* quota of each through the api-call proxy, and prints a menu.            *)
(*                                                                         *)
(* Two specifications share the variables:                                 *)
(*   SpecAgg  _build_antigravity_groups applied to bounded raw mappings;   *)
(*   Spec     one run of main(), one step per network round trip.          *)
(***************************************************************************)
EXTENDS Integers, Sequences, FiniteSets, TLC

VARIABLES
    aggPc,          \* SpecAgg: "input" before the call, "done" after it
    models,         \* SpecAgg: the raw models mapping, in dict insertion order
    aggOut,         \* what the last call of _build_antigravity_groups produced
    pc,             \* Spec: where main() stands
    management_key, \* MANAGEMENT_KEY
    files,          \* the "files" list of the directory response
    auth_files,     \* main: auth_files
    idx,            \* main: position of the loop over auth_files (1-based)
    url,            \* fetch_antigravity_quota: position in ANTIGRAVITY_QUOTA_URLS
    last_error,     \* fetch_antigravity_quota: last_error
    codex_quotas,   \* main: codex_quotas
    ag_quotas,      \* main: ag_quotas
    calls,          \* every network call issued so far, in order
    fetched,        \* one summary per auth file whose fetch has ended
    out,            \* the lines printed to stdout
    exc,            \* the exception main() caught at its top level
    exit_code       \* sys.exit status (no exit yet: the empty sequence)

aggVars == <<aggPc, models, aggOut>>
mainVars ==
    <<pc, management_key, files, auth_files, idx, url, last_error, codex_quotas,
      ag_quotas, calls, fetched, out, exc, exit_code>>
vars == <<aggVars, mainVars>>

\* ---------------------------------------------------------------- bounds

\* Longest raw models mapping drawn as an input of the aggregation.
MaxModels == 3
\* Remaining fractions are drawn from 0..MaxFrac (units of 1/MaxFrac).
MaxFrac == 1
\* Longest "files" list of a directory response.
MaxFiles == 2

\* ------------------------------------------------------- JSON value model

\* A JSON field that should hold a number: the key may be absent, hold null,
\* a number, a numeric string ("0.5") or a string float() rejects.
FAbsent == [t |-> "absent", v |-> 0]
FNull == [t |-> "null", v |-> 0]
FNum(n) == [t |-> "num", v |-> n]
FStr(n) == [t |-> "str", v |-> n]
FBad == [t |-> "bad", v |-> 0]

\* A JSON field that should hold a string: absent, null, or a string.
SAbsent == [t |-> "absent", v |-> ""]
SNull == [t |-> "null", v |-> ""]
SStr(s) == [t |-> "str", v |-> s]

\* The four quota keys of a dict that has none of them.
NoKeys ==
    [remainingFraction |-> FAbsent, remaining_fraction |-> FAbsent,
     resetTime |-> SAbsent, reset_time |-> SAbsent]

\* info["quotaInfo"]: absent, {} ("empty"), a non-empty dict ("obj") or a
\* truthy value that is no dict ("nonobj").
QAbsent == [t |-> "absent"] @@ NoKeys

\* An entry of the models mapping that is no dict (skipped by the loop).
NonRecordInfo == [isdict |-> FALSE, quotaInfo |-> QAbsent] @@ NoKeys

\* ------------------------------------------------- static configuration

\* Group labels as code points: sorted() compares them lexicographically.
LabelCodes(label) ==
    CASE label = "Claude/GPT" -> <<67, 108, 97, 117, 100, 101, 47, 71, 80, 84>>
      [] label = "Gemini 3 Pro" ->
            <<71, 101, 109, 105, 110, 105, 32, 51, 32, 80, 114, 111>>
      [] label = "Gemini 3 Flash" ->
            <<71, 101, 109, 105, 110, 105, 32, 51, 32, 70, 108, 97, 115, 104>>
      [] label = "Gemini 2.5 Pro" ->
            <<71, 101, 109, 105, 110, 105, 32, 50, 46, 53, 32, 80, 114, 111>>
      [] label = "Gemini 2.5 Flash" ->
            <<71, 101, 109, 105, 110, 105, 32, 50, 46, 53, 32, 70, 108, 97, 115, 104>>
      [] label = "Gemini 2.5 Flash Lite" ->
            <<71, 101, 109, 105, 110, 105, 32, 50, 46, 53, 32, 70, 108, 97, 115, 104,
              32, 76, 105, 116, 101>>

ANTIGRAVITY_GROUPS ==
    << [id |-> "claude-gpt", label |-> "Claude/GPT",
        ids |-> <<"claude-sonnet-4-5-thinking", "claude-opus-4-5-thinking",
                  "claude-opus-4-6-thinking", "claude-sonnet-4-5",
                  "claude-sonnet-4-6", "gpt-oss-120b-medium">>],
       [id |-> "gemini-3-pro", label |-> "Gemini 3 Pro",
        ids |-> <<"gemini-3-pro-high", "gemini-3-pro-low",
                  "gemini-3.1-pro-high", "gemini-3.1-pro-low">>],
       [id |-> "gemini-3-flash", label |-> "Gemini 3 Flash",
        ids |-> <<"gemini-3-flash", "gemini-3.1-flash-image">>],
       [id |-> "gemini-2.5-pro", label |-> "Gemini 2.5 Pro",
        ids |-> <<"gemini-2.5-pro">>],
       [id |-> "gemini-2-5-flash", label |-> "Gemini 2.5 Flash",
        ids |-> <<"gemini-2.5-flash", "gemini-2.5-flash-thinking">>],
       [id |-> "gemini-2-5-flash-lite", label |-> "Gemini 2.5 Flash Lite",
        ids |-> <<"gemini-2.5-flash-lite">>] >>

\* ------------------------------------------------------------ aggregation

Max(S) == CHOOSE x \in S : \A y \in S : y <= x

\* model_to_group.get(model_id): the index of the group, 0 for None.  The
\* lookup dict is filled group by group, so a later group would overwrite.
model_to_group(mid) ==
    LET S == {g \in DOMAIN ANTIGRAVITY_GROUPS :
                 \E k \in DOMAIN ANTIGRAVITY_GROUPS[g].ids :
                     ANTIGRAVITY_GROUPS[g].ids[k] = mid}
    IN IF S = {} THEN 0 ELSE Max(S)

\* d.get("remainingFraction", d.get("remaining_fraction")): the camelCase key
\* wins when present (even holding null); None when both are absent.
GetRemaining(d) ==
    IF d.remainingFraction.t # "absent" THEN d.remainingFraction
    ELSE IF d.remaining_fraction.t # "absent" THEN d.remaining_fraction
    ELSE FNull

\* d.get("resetTime", d.get("reset_time", "")).
GetResetTime(d) ==
    IF d.resetTime.t # "absent" THEN d.resetTime
    ELSE IF d.reset_time.t # "absent" THEN d.reset_time
    ELSE SStr("")

\* Python truthiness of quota_info and of reset_time.
QuotaInfoTruthy(qi) == qi.t \in {"obj", "nonobj"}
ResetTruthy(rt) == rt.t = "str" /\ rt.v # ""

\* float(remaining): a number or a numeric string converts, anything else
\* raises ValueError.
FloatRaises(r) == r.t = "bad"
Float(r) == r.v

\* The dict the quota keys are read from: quotaInfo when truthy, else info.
\* (A truthy quotaInfo that is no dict raises before anything is read.)
QuotaSource(info) ==
    IF QuotaInfoTruthy(info.quotaInfo) THEN info.quotaInfo ELSE info

\* remaining and reset_time of one entry, as the loop extracts them.
ExtractRemaining(info) == GetRemaining(QuotaSource(info))
ExtractResetTime(info) == GetResetTime(QuotaSource(info))

\* Index of the entry of group_data with this group id, 0 when absent.
GroupIndex(gd, gid) ==
    IF \E i \in DOMAIN gd : gd[i].gid = gid
    THEN CHOOSE i \in DOMAIN gd : gd[i].gid = gid
    ELSE 0

\* Mutant of NewResetTime: the new member's reset time always replaces.
NewResetTimeReplace(reset_time, old) ==
    IF ResetTruthy(reset_time) THEN reset_time.v ELSE ""

\* g.reset_time after a member that lowered the group's fraction.
NewResetTime(reset_time, old) ==
    IF ResetTruthy(reset_time) THEN reset_time.v ELSE old

\* Mutant of Lowers: only the first fraction seen is recorded.
LowersFirstOnly(frac, g) == g.remaining_fraction = <<>>

\* Whether the member's fraction replaces the group's.
Lowers(frac, g) ==
    g.remaining_fraction = <<>> \/ frac < g.remaining_fraction[1]

\* One iteration of the loop over models.items().  The accumulator is
\* [raised, gd]: gd is group_data in insertion order, raised the exception
\* that ended the function ("" for none).
BuildStep(acc, model_id, info) ==
    IF acc.raised # "" \/ ~info.isdict THEN acc
    ELSE
    LET qi == info.quotaInfo
        remaining == ExtractRemaining(info)
        reset_time == ExtractResetTime(info)
        gdef == model_to_group(model_id)
        gid == ANTIGRAVITY_GROUPS[gdef].id
        gd1 == IF GroupIndex(acc.gd, gid) = 0
               THEN Append(acc.gd,
                           [gid |-> gid,
                            group_label |-> ANTIGRAVITY_GROUPS[gdef].label,
                            remaining_fraction |-> <<>>,
                            reset_time |-> "",
                            models |-> <<>>])
               ELSE acc.gd
        i == GroupIndex(gd1, gid)
        g1 == [gd1[i] EXCEPT !.models = Append(@, model_id)]
        g2 == IF remaining.t # "null" /\ Lowers(Float(remaining), g1)
              THEN [g1 EXCEPT !.remaining_fraction = <<Float(remaining)>>,
                              !.reset_time = NewResetTime(reset_time, @)]
              ELSE g1
    IN  IF qi.t = "nonobj" THEN [acc EXCEPT !.raised = "AttributeError"]
        ELSE IF gdef = 0 THEN acc
        ELSE IF remaining.t # "null" /\ FloatRaises(remaining)
             THEN [acc EXCEPT !.raised = "ValueError"]
        ELSE [acc EXCEPT !.gd = [gd1 EXCEPT ![i] = g2]]

RECURSIVE BuildLoop(_, _)
BuildLoop(acc, ms) ==
    IF ms = <<>> THEN acc
    ELSE BuildLoop(BuildStep(acc, ms[1].id, ms[1].info), Tail(ms))

\* Mutant of LexLess: the comparison of a descending sort.
RECURSIVE LexGreater(_, _)
LexGreater(a, b) ==
    IF a = <<>> THEN FALSE
    ELSE IF b = <<>> THEN TRUE
    ELSE IF a[1] # b[1] THEN a[1] > b[1]
    ELSE LexGreater(Tail(a), Tail(b))

\* a < b for two strings given as code points.
RECURSIVE LexLess(_, _)
LexLess(a, b) ==
    IF b = <<>> THEN FALSE
    ELSE IF a = <<>> THEN TRUE
    ELSE IF a[1] # b[1] THEN a[1] < b[1]
    ELSE LexLess(Tail(a), Tail(b))

\* sorted(xs, key=group_label): stable, so an element goes after every
\* element whose key is not greater than its own.
RECURSIVE InsertByLabel(_, _)
InsertByLabel(sorted, g) ==
    IF sorted = <<>> THEN <<g>>
    ELSE IF LexLess(LabelCodes(g.group_label), LabelCodes(sorted[1].group_label))
         THEN <<g>> \o sorted
         ELSE <<sorted[1]>> \o InsertByLabel(Tail(sorted), g)

\* Mutant of SortedByLabel: the groups stay in insertion order.
Unsorted(gd) == gd

RECURSIVE SortedByLabel(_)
SortedByLabel(gd) ==
    IF gd = <<>> THEN <<>>
    ELSE InsertByLabel(SortedByLabel(SubSeq(gd, 1, Len(gd) - 1)), gd[Len(gd)])

\* A group as the caller sees it (AntigravityModelQuota).
ModelQuota(g) ==
    [group_label |-> g.group_label, remaining_fraction |-> g.remaining_fraction,
     reset_time |-> g.reset_time, models |-> g.models]

\* _build_antigravity_groups(models): [raised, groups].
build_antigravity_groups(ms) ==
    LET acc == BuildLoop([raised |-> "", gd |-> <<>>], ms)
        srt == SortedByLabel(acc.gd)
    IN  IF acc.raised # "" THEN [raised |-> acc.raised, groups |-> <<>>]
        ELSE [raised |-> "", groups |-> [i \in DOMAIN srt |-> ModelQuota(srt[i])]]

\* ------------------------------------------------ aggregation: the inputs

\* The model ids drawn as keys: two members of one group, one of a group
\* whose label sorts later, and one with no configured group.
InputIds ==
    {"claude-sonnet-4-5", "gpt-oss-120b-medium", "gemini-2.5-pro", "o3-unlisted"}

\* The reset time a model reports when it reports one: its own.
OwnReset(mid) == "T:" \o mid

\* How each upstream model spells its quota: nested under quotaInfo or flat,
\* camelCase or snake_case, fraction as a number or as a numeric string.  A
\* nested entry also carries flat keys, which the code must not read.
InfoOf(mid, f, hasReset) ==
    LET fr == IF f < 0 THEN FAbsent ELSE FNum(f)
        frs == IF f < 0 THEN FAbsent ELSE FStr(f)
        rt == IF hasReset THEN SStr(OwnReset(mid)) ELSE SAbsent
        rte == IF hasReset THEN SStr(OwnReset(mid)) ELSE SStr("")
    IN  CASE mid = "claude-sonnet-4-5" ->
               [isdict |-> TRUE,
                quotaInfo |-> [t |-> "obj", remainingFraction |-> fr,
                               remaining_fraction |-> FAbsent,
                               resetTime |-> rt, reset_time |-> SAbsent],
                remainingFraction |-> FNum(0), remaining_fraction |-> FAbsent,
                resetTime |-> SStr("T:flat"), reset_time |-> SAbsent]
          [] mid = "gpt-oss-120b-medium" ->
               [isdict |-> TRUE, quotaInfo |-> QAbsent,
                remainingFraction |-> FAbsent, remaining_fraction |-> frs,
                resetTime |-> SAbsent, reset_time |-> rte]
          [] mid = "gemini-2.5-pro" ->
               [isdict |-> TRUE,
                quotaInfo |-> [t |-> "obj", remainingFraction |-> FAbsent,
                               remaining_fraction |-> fr,
                               resetTime |-> SAbsent, reset_time |-> rt],
                remainingFraction |-> FAbsent, remaining_fraction |-> FAbsent,
                resetTime |-> SAbsent, reset_time |-> SAbsent]
          [] OTHER ->
               [isdict |-> TRUE, quotaInfo |-> [t |-> "empty"] @@ NoKeys,
                remainingFraction |-> IF f < 0 THEN FNull ELSE fr,
                remaining_fraction |-> FNum(0),
                resetTime |-> IF hasReset THEN rt ELSE SNull,
                reset_time |-> SStr("T:snake")]

\* A dict entry whose fraction float() rejects.
BadInfo ==
    [isdict |-> TRUE, quotaInfo |-> QAbsent,
     remainingFraction |-> FBad, remaining_fraction |-> FAbsent,
     resetTime |-> SAbsent, reset_time |-> SAbsent]

\* The entries drawn for a key.  The unlisted model reports the lowest
\* fraction, so that counting it would show in every group.
InfosOf(mid) ==
    CASE mid = "o3-unlisted" -> {InfoOf(mid, 0, TRUE), NonRecordInfo, BadInfo}
      [] mid = "gemini-2.5-pro" ->
            {InfoOf(mid, f, r) : f \in (0 - 1)..MaxFrac, r \in BOOLEAN}
                \cup {NonRecordInfo}
      [] OTHER ->
            {InfoOf(mid, f, r) : f \in (0 - 1)..MaxFrac, r \in BOOLEAN}
                \cup {NonRecordInfo, BadInfo}

NoOut == [raised |-> "", groups |-> <<>>]

\* SpecAgg leaves main() where it ended, with nothing fetched or printed.
AggInit ==
    /\ aggPc = "input"
    /\ models = <<>>
    /\ aggOut = NoOut
    /\ pc = "done"
    /\ management_key = "key"
    /\ files = <<>>
    /\ auth_files = <<>>
    /\ idx = 1
    /\ url = 1
    /\ last_error = ""
    /\ codex_quotas = <<>>
    /\ ag_quotas = <<>>
    /\ calls = <<>>
    /\ fetched = <<>>
    /\ out = <<>>
    /\ exc = [where |-> "", type |-> ""]
    /\ exit_code = <<>>

\* The upstream response gains one more entry: dict keys are distinct, and
\* any insertion order can occur.
AddModel ==
    /\ aggPc = "input"
    /\ Len(models) < MaxModels
    /\ \E mid \in {x \in InputIds : \A i \in DOMAIN models : models[i].id # x} :
          \E info \in InfosOf(mid) :
              models' = Append(models, [id |-> mid, info |-> info])
    /\ UNCHANGED <<aggPc, aggOut, mainVars>>

\* The call groups = _build_antigravity_groups(models).
Aggregate ==
    /\ aggPc = "input"
    /\ aggOut' = build_antigravity_groups(models)
    /\ aggPc' = "done"
    /\ UNCHANGED <<models, mainVars>>

AggNext == AddModel \/ Aggregate

SpecAgg == AggInit /\ [][AggNext]_vars

\* =========================================================== one run of main

\* ------------------------------------------------------- directory listing

TARGET_PROVIDERS == {"codex", "antigravity"}

\* One entry of the directory response.  email stands for the account's
\* identity: the entry's position in the list.  id_token is absent or an
\* object holding chatgpt_account_id.
Item(provider, auth_index, authIndex, hasToken, account, email) ==
    [provider |-> provider, auth_index |-> auth_index, authIndex |-> authIndex,
     id_token |-> [t |-> IF hasToken THEN "obj" ELSE "absent",
                   chatgpt_account_id |-> account],
     email |-> email]

\* The entries drawn at a position of the list.
ItemsAt(e) ==
    { Item("codex", "a1", "", TRUE, "acct1", e),
      Item("codex", "", "a1", FALSE, "", e),
      Item("codex", "", "", TRUE, "acct1", e),
      Item("codex", "", "", TRUE, "", e),
      Item("antigravity", "a2", "", FALSE, "", e),
      Item("antigravity", "", "", TRUE, "acct1", e),
      Item("gemini", "a3", "", FALSE, "", e) }

RECURSIVE FileLists(_)
FileLists(n) ==
    IF n = 0 THEN {<<>>}
    ELSE UNION { {Append(fl, it) : it \in ItemsAt(n)} : fl \in FileLists(n - 1) }

\* AuthFile(...) for one kept entry (lines 278-295); the fields the fetchers
\* read.
AuthFile(item) ==
    [provider |-> item.provider,
     auth_index |-> IF item.auth_index # "" THEN item.auth_index ELSE item.authIndex,
     email |-> item.email,
     chatgpt_account_id |->
         IF item.id_token.t = "obj" /\ item.provider = "codex"
         THEN item.id_token.chatgpt_account_id ELSE ""]

\* Whether the loop of get_auth_files keeps the entry.
KeepsItem(item) == item.provider \in TARGET_PROVIDERS

\* get_auth_files() on a decoded response with this "files" list.
RECURSIVE get_auth_files(_)
get_auth_files(fl) ==
    IF fl = <<>> THEN <<>>
    ELSE IF KeepsItem(fl[1]) THEN <<AuthFile(fl[1])>> \o get_auth_files(Tail(fl))
    ELSE get_auth_files(Tail(fl))

\* -------------------------------------------------- api-call responses

\* A usage window of a Codex body: absent (or {}), a truthy non-dict, or a
\* dict with used_percent and reset_after_seconds.
Window(t, used, reset) == [t |-> t, used_percent |-> used, reset_after_seconds |-> reset]
NoWindow == Window("absent", FNull, FNull)

\* What the proxied call produced: an exception raised by api_call, or the
\* decoded dict's status_code and body.
\*   status  the int of status_code (0 when the key is missing)
\*   bt      body: "empty", "invalid" (no JSON), "nonobj" (JSON, not an
\*           object), "obj"
\*   rl      body["rate_limit"]: "absent", "nonobj" (null or no dict), "obj"
\*   mt      body["models"]: "absent", "empty" ({}), "list" (truthy non-dict),
\*           "dict" (the non-empty mapping ms)
Response(ex, status, bt, rl, lr, pw, sw, mt, ms) ==
    [exc |-> ex, status |-> status, bt |-> bt, rl |-> rl, limit_reached |-> lr,
     primary_window |-> pw, secondary_window |-> sw, mt |-> mt, ms |-> ms]

Raised(ex) == Response(ex, 0, "empty", "absent", FALSE, NoWindow, NoWindow, "absent", <<>>)
Status(n) == Response("", n, "empty", "absent", FALSE, NoWindow, NoWindow, "absent", <<>>)
Body(bt) == Response("", 200, bt, "absent", FALSE, NoWindow, NoWindow, "absent", <<>>)
NoResponse == Raised("")

\* Exceptions api_call raises: RuntimeError (lines 242-248), JSONDecodeError
\* (line 241, a management reply that is no JSON) and, uncaught by
\* _make_request, a timeout while reading the reply.
ApiExceptions == {"RuntimeError", "JSONDecodeError", "TimeoutError"}

\* str(exc) for the exceptions the fetchers catch.
ExcText(ex) ==
    CASE ex = "RuntimeError" -> "Connection error: timed out"
      [] ex = "JSONDecodeError" -> "Expecting value: line 1 column 1 (char 0)"
      [] OTHER -> ex

\* The windows drawn: absent, well formed, used_percent as a string ("30").
WindowsDrawn ==
    { NoWindow, Window("obj", FNum(30), FNum(60)), Window("obj", FStr(30), FNull) }

CodexResponses ==
    {Raised(ex) : ex \in ApiExceptions}
        \cup {Status(0), Status(500)}
        \cup {Body("empty"), Body("invalid"), Body("nonobj")}
        \cup {Response("", 200, "obj", "absent", FALSE, NoWindow, NoWindow, "absent", <<>>),
              Response("", 200, "obj", "nonobj", FALSE, NoWindow, NoWindow, "absent", <<>>)}
        \cup {Response("", 200, "obj", "obj", FALSE, pw, sw, "absent", <<>>) :
                 pw \in WindowsDrawn, sw \in WindowsDrawn}
        \cup {Response("", 200, "obj", "obj", TRUE, Window("obj", FNum(30), FNum(60)),
                       NoWindow, "absent", <<>>),
              Response("", 200, "obj", "obj", FALSE, Window("nonobj", FNull, FNull),
                       NoWindow, "absent", <<>>)}

\* The models mappings drawn for a successful Antigravity body.
ModelsDrawn ==
    { <<[id |-> "gemini-2.5-pro", info |-> InfoOf("gemini-2.5-pro", MaxFrac, TRUE)],
        [id |-> "claude-sonnet-4-5", info |-> InfoOf("claude-sonnet-4-5", 0, TRUE)]>>,
      <<[id |-> "gpt-oss-120b-medium", info |-> InfoOf("gpt-oss-120b-medium", 0 - 1, FALSE)]>>,
      <<[id |-> "o3-unlisted", info |-> InfoOf("o3-unlisted", 0, TRUE)]>>,
      <<[id |-> "gpt-oss-120b-medium", info |-> BadInfo]>> }

AntigravityResponses ==
    {Raised(ex) : ex \in ApiExceptions}
        \cup {Status(500)}
        \cup {Body("empty"), Body("invalid"), Body("nonobj")}
        \cup {Response("", 200, "obj", "absent", FALSE, NoWindow, NoWindow, mt, <<>>) :
                 mt \in {"absent", "empty", "list"}}
        \cup {Response("", 200, "obj", "absent", FALSE, NoWindow, NoWindow, "dict", ms) :
                 ms \in ModelsDrawn}

\* ---------------------------------------------------------- Codex fetcher

\* Mutant of CodexQuota: primary_used_pct defaults to 0 instead of None.
CodexQuotaZeroed(email) ==
    [email |-> email, primary_used_pct |-> FNum(0), primary_reset_seconds |-> FNull,
     secondary_used_pct |-> FNull, secondary_reset_seconds |-> FNull,
     limit_reached |-> FALSE, error |-> ""]

\* CodexQuota (lines 177-188) without plan_type.
CodexQuota(email) ==
    [email |-> email, primary_used_pct |-> FNull, primary_reset_seconds |-> FNull,
     secondary_used_pct |-> FNull, secondary_reset_seconds |-> FNull,
     limit_reached |-> FALSE, error |-> ""]

\* Mutant of CodexPrecheck: the account id is checked before the index.
CodexPrecheckSwapped(af) ==
    IF af.chatgpt_account_id = "" THEN "missing chatgpt_account_id"
    ELSE IF af.auth_index = "" THEN "missing auth_index"
    ELSE ""

\* The early returns of fetch_codex_quota: the error, "" to go on.
CodexPrecheck(af) ==
    IF af.auth_index = "" THEN "missing auth_index"
    ELSE IF af.chatgpt_account_id = "" THEN "missing chatgpt_account_id"
    ELSE ""

\* A 2xx status.
StatusOk(n) == ~(n < 200 \/ n >= 300)

HttpError(n) ==
    CASE n = 0 -> "HTTP 0" [] n = 500 -> "HTTP 500" [] OTHER -> "HTTP n"

\* The try block of fetch_codex_quota on one api_call outcome:
\* [raised, quota], raised naming the exception that leaves the fetcher.
CodexTry(af, r) ==
    LET q == CodexQuota(af.email)
        err(e) == [raised |-> "", quota |-> [q EXCEPT !.error = e]]
        raise(e) == [raised |-> e, quota |-> q]
        pw == r.primary_window
        sw == r.secondary_window
        q1 == [q EXCEPT !.limit_reached = r.limit_reached]
        q2 == IF pw.t = "obj"
              THEN [q1 EXCEPT !.primary_used_pct = pw.used_percent,
                              !.primary_reset_seconds = pw.reset_after_seconds]
              ELSE q1
        q3 == IF sw.t = "obj"
              THEN [q2 EXCEPT !.secondary_used_pct = sw.used_percent,
                              !.secondary_reset_seconds = sw.reset_after_seconds]
              ELSE q2
    IN  IF r.exc \in {"RuntimeError", "JSONDecodeError", "KeyError"} THEN err(ExcText(r.exc))
        ELSE IF r.exc # "" THEN raise(r.exc)
        ELSE IF ~StatusOk(r.status) THEN err(HttpError(r.status))
        ELSE IF r.bt = "empty" THEN err("empty response")
        ELSE IF r.bt = "invalid" THEN err(ExcText("JSONDecodeError"))
        ELSE IF r.bt = "nonobj" THEN raise("AttributeError")
        ELSE IF r.rl = "absent" THEN [raised |-> "", quota |-> q]
        ELSE IF r.rl = "nonobj" THEN raise("AttributeError")
        ELSE IF pw.t = "nonobj" THEN raise("AttributeError")
        ELSE IF sw.t = "nonobj" THEN raise("AttributeError")
        ELSE [raised |-> "", quota |-> q3]

\* ----------------------------------------------------- Antigravity fetcher

ANTIGRAVITY_QUOTA_URLS ==
    << "https://daily-cloudcode-pa.googleapis.com/v1internal:fetchAvailableModels",
       "https://daily-cloudcode-pa.sandbox.googleapis.com/v1internal:fetchAvailableModels",
       "https://cloudcode-pa.googleapis.com/v1internal:fetchAvailableModels" >>

\* AntigravityQuota (lines 201-207).
AntigravityQuota(email) == [email |-> email, groups |-> <<>>, error |-> ""]

\* One pass of the loop body on one api_call outcome:
\*   [how |-> "fail", reason]     continue with the next URL
\*   [how |-> "ok", groups]       return quota
\*   [how |-> "raise", reason]    an exception leaves the fetcher
\* built is what _build_antigravity_groups(models) produces (line 413).
ReachesBuild(r) ==
    /\ r.exc = ""
    /\ StatusOk(r.status)
    /\ r.bt = "obj"
    /\ r.mt = "dict"
    /\ r.ms # <<>>

AntigravityTry(r, built) ==
    LET fail(e) == [how |-> "fail", reason |-> e, groups |-> <<>>]
        raise(e) == [how |-> "raise", reason |-> e, groups |-> <<>>]
    IN  IF r.exc \in {"RuntimeError", "JSONDecodeError"} THEN fail(ExcText(r.exc))
        ELSE IF r.exc # "" THEN raise(r.exc)
        ELSE IF ~StatusOk(r.status) THEN fail(HttpError(r.status))
        ELSE IF r.bt = "empty" THEN fail("empty response")
        ELSE IF r.bt = "invalid" THEN fail(ExcText("JSONDecodeError"))
        ELSE IF r.bt = "nonobj" THEN raise("AttributeError")
        ELSE IF r.mt # "dict" \/ r.ms = <<>> THEN fail("no models in response")
        ELSE IF built.raised # "" THEN raise(built.raised)
        ELSE [how |-> "ok", reason |-> "", groups |-> built.groups]

\* Mutant of NextLastError: the first failure reason is kept.
KeepFirstError(old, reason) == IF old = "" THEN reason ELSE old

\* last_error after a failed attempt.
NextLastError(old, reason) == reason

\* quota.error after the loop ran out of URLs.
FinalError(le) == IF le = "" THEN "all endpoints failed" ELSE le

\* ------------------------------------------------------------- rendering

\* One printed line: its kind and what it shows.
Line(kind, who, s, n, s2, n2) ==
    [kind |-> kind, who |-> who, s |-> s, n |-> n, s2 |-> s2, n2 |-> n2]
Plain(kind) == Line(kind, 0, "", 0, "", 0)

\* print_error(message).
print_error(message) ==
    << Plain("error_title"), Plain("sep"), Line("error", 0, message, 0, "", 0),
       Plain("sep"), Plain("retry") >>

\* The lines main prints when no auth file is kept (lines 664-668).
NoAccountsLines ==
    << Plain("no_accounts_title"), Plain("sep"), Plain("no_accounts"),
       Plain("sep"), Plain("management") >>

\* The footer (lines 690-695).
FooterLines ==
    << Plain("sep"), Plain("updated"), Plain("sep"), Plain("refresh"),
       Plain("management") >>

\* A printing step: the lines it printed and the exception that ended it.
Printed(lines) == [raised |-> "", lines |-> lines]
PrintRaised(lines, e) == [raised |-> e, lines |-> lines]
Then(a, b) ==
    IF a.raised # "" THEN a ELSE [raised |-> b.raised, lines |-> a.lines \o b.lines]

\* round(fraction * 100) for a fraction of k/MaxFrac: Python rounds a half to
\* the even neighbour.
Pct(k) ==
    LET q == (100 * k) \div MaxFrac
        r == (100 * k) % MaxFrac
    IN  IF 2 * r < MaxFrac THEN q
        ELSE IF 2 * r > MaxFrac THEN q + 1
        ELSE IF q % 2 = 0 THEN q ELSE q + 1

\* _fmt_reset_abs(seconds): "now" for None or a delay <= 0, else the local
\* time that many seconds ahead.
fmt_reset_abs(seconds) ==
    IF seconds.t = "null" \/ seconds.v <= 0 THEN "now" ELSE "now+delay"

\* _fmt_reset_time(reset_time): "" for an empty timestamp, else the local
\* time of the (future) timestamp.
fmt_reset_time(reset_time) ==
    IF reset_time = "" THEN "" ELSE "local " \o reset_time

\* The fractions of the groups that have one.
GroupFractions(groups) ==
    {groups[k].remaining_fraction[1] :
        k \in {j \in DOMAIN groups : groups[j].remaining_fraction # <<>>}}

\* Mutant of First: the last account's result.
Last(qs) == qs[Len(qs)]

\* codex_quotas[0], ag_quotas[0] (lines 607, 617).
First(qs) == qs[1]

\* print_status_bar(codex_quotas, ag_quotas): the title line, or the
\* TypeError of 100 - used_percent on a used_percent that is no number.
print_status_bar(cq, aq) ==
    LET q == First(cq)
        cbad == cq # <<>> /\ q.primary_used_pct.t \notin {"null", "num"}
        cs == IF cq = <<>> THEN "none"
              ELSE IF q.primary_used_pct.t = "null" THEN "?"
              ELSE IF q.limit_reached THEN "limit" ELSE "pct"
        cn == IF cq # <<>> /\ q.primary_used_pct.t = "num"
              THEN 100 - q.primary_used_pct.v ELSE 0
        a == First(aq)
        fr == GroupFractions(a.groups)
        as == IF aq = <<>> THEN "none"
              ELSE IF a.groups # <<>> THEN (IF fr # {} THEN "pct" ELSE "?")
              ELSE IF a.error # "" THEN "warn"
              ELSE "?"
        an == IF aq # <<>> /\ a.groups # <<>> /\ fr # {}
              THEN Pct(CHOOSE x \in fr : \A y \in fr : x <= y) ELSE 0
    IN  IF cbad THEN PrintRaised(<<>>, "TypeError")
        ELSE Printed(<<Line("title", 0, cs, cn, as, an)>>)

\* The lines of one Codex account (the body of the loop, lines 534-557).
PrintCodexAccount(q) ==
    LET icon == IF q.limit_reached THEN "red" ELSE "ok"
        account == Line("codex_account", q.email, icon, 0, "", 0)
        primary ==
            IF q.primary_used_pct.t = "null" THEN Printed(<<account>>)
            ELSE IF q.primary_used_pct.t # "num" THEN PrintRaised(<<>>, "TypeError")
            ELSE Printed(<<account,
                           Line("codex_5h", q.email, "", 100 - q.primary_used_pct.v,
                                fmt_reset_abs(q.primary_reset_seconds), 0)>>)
        secondary ==
            IF q.secondary_used_pct.t = "null" THEN Printed(<<>>)
            ELSE IF q.secondary_used_pct.t # "num" THEN PrintRaised(<<>>, "TypeError")
            ELSE Printed(<<Line("codex_weekly", q.email, "", 100 - q.secondary_used_pct.v,
                                fmt_reset_abs(q.secondary_reset_seconds), 0)>>)
    IN  IF q.error # ""
        THEN Printed(<<Line("codex_error", q.email, q.error, 0, "", 0)>>)
        ELSE Then(primary, secondary)

RECURSIVE PrintCodexAccounts(_)
PrintCodexAccounts(qs) ==
    IF qs = <<>> THEN Printed(<<>>)
    ELSE Then(PrintCodexAccount(qs[1]), PrintCodexAccounts(Tail(qs)))

\* print_codex_section(quotas).
print_codex_section(qs) ==
    Then(Printed(<<Line("codex_header", 0, "", Len(qs), "", 0)>>),
         PrintCodexAccounts(qs))

\* The colour band of a percentage (line 585).
Band(pct) == IF pct > 50 THEN "green" ELSE IF pct > 20 THEN "orange" ELSE "red"

\* The line of one group (lines 580-591).
GroupLine(who, g) ==
    IF g.remaining_fraction # <<>>
    THEN Line("ag_group", who, g.group_label, Pct(g.remaining_fraction[1]),
              fmt_reset_time(g.reset_time) \o "/" \o Band(Pct(g.remaining_fraction[1])), 0)
    ELSE Line("ag_group_na", who, g.group_label, 0, "", 0)

\* The lines of one Antigravity account (the body of the loop, 568-591).
PrintAntigravityAccount(q) ==
    IF q.error # "" THEN <<Line("ag_error", q.email, q.error, 0, "", 0)>>
    ELSE IF q.groups = <<>>
         THEN <<Line("ag_account", q.email, "", 0, "", 0),
                Line("ag_no_data", q.email, "", 0, "", 0)>>
    ELSE <<Line("ag_account", q.email, "", 0, "", 0)>>
            \o [k \in DOMAIN q.groups |-> GroupLine(q.email, q.groups[k])]

RECURSIVE PrintAntigravityAccounts(_)
PrintAntigravityAccounts(qs) ==
    IF qs = <<>> THEN <<>>
    ELSE PrintAntigravityAccount(qs[1]) \o PrintAntigravityAccounts(Tail(qs))

\* print_antigravity_section(quotas).
print_antigravity_section(qs) ==
    Printed(<<Line("ag_header", 0, "", Len(qs), "", 0)>> \o PrintAntigravityAccounts(qs))

\* Step 3 of main (lines 682-695): what is printed, and the exception that
\* interrupted it.
RenderOutput(cq, aq) ==
    Then(print_status_bar(cq, aq),
    Then(Printed(<<Plain("sep")>>),
    Then(IF cq # <<>> THEN print_codex_section(cq) ELSE Printed(<<>>),
    Then(IF aq # <<>> THEN print_antigravity_section(aq) ELSE Printed(<<>>),
         Printed(FooterLines)))))

\* ------------------------------------------------------------ main: steps

NoExc == [where |-> "", type |-> ""]

\* The message print_error gets from the handlers of lines 697-700.
TopLevelMessage(ex) ==
    IF ex = "RuntimeError" THEN ExcText(ex) ELSE "Unexpected: " \o ExcText(ex)

Call(kind, who, u) == [kind |-> kind, who |-> who, url |-> u]

\* How the fetch of one auth file ended: the calls it issued, the outcome of
\* the last one, whether it returned or raised, and the result it returned
\* (<<>> when it raised).
Fetched(af, ncalls, last, how, result) ==
    [who |-> af.email, provider |-> af.provider, ncalls |-> ncalls,
     last |-> last, how |-> how, result |-> result]

Init ==
    /\ aggPc = "idle"
    /\ models = <<>>
    /\ aggOut = NoOut
    /\ pc = "start"
    /\ management_key \in {"", "key"}
    /\ files = <<>>
    /\ auth_files = <<>>
    /\ idx = 1
    /\ url = 1
    /\ last_error = ""
    /\ codex_quotas = <<>>
    /\ ag_quotas = <<>>
    /\ calls = <<>>
    /\ fetched = <<>>
    /\ out = <<>>
    /\ exc = NoExc
    /\ exit_code = <<>>

\* An exception reaches the handlers at the end of main: print_error, then
\* sys.exit(0).
CaughtAtTop(where, ex) ==
    /\ out' = out \o print_error(TopLevelMessage(ex))
    /\ exc' = [where |-> where, type |-> ex]
    /\ exit_code' = <<0>>
    /\ pc' = "done"

\* The loop of main moves to the next auth file, or on to rendering.
Advance ==
    /\ idx' = idx + 1
    /\ url' = 1
    /\ last_error' = ""
    /\ pc' = IF idx + 1 > Len(auth_files) THEN "render" ELSE "fetch"

\* Lines 655-657: no management key.
MissingKey ==
    /\ pc = "start"
    /\ management_key = ""
    /\ out' = print_error("CPA_MANAGEMENT_KEY not set")
    /\ exit_code' = <<0>>
    /\ pc' = "done"
    /\ UNCHANGED <<aggVars, management_key, files, auth_files, idx, url, last_error,
                   codex_quotas, ag_quotas, calls, fetched, exc>>

\* get_auth_files() raises: _make_request's RuntimeError, or a reply that is
\* no JSON, or a timeout while reading it.
ListingFails ==
    /\ pc = "start"
    /\ management_key # ""
    /\ calls' = Append(calls, Call("list", 0, 0))
    /\ \E ex \in ApiExceptions : CaughtAtTop("listing", ex)
    /\ UNCHANGED <<aggVars, management_key, files, auth_files, idx, url, last_error,
                   codex_quotas, ag_quotas, fetched>>

\* get_auth_files() returns (lines 661-669).
ListingReturns ==
    /\ pc = "start"
    /\ management_key # ""
    /\ calls' = Append(calls, Call("list", 0, 0))
    /\ \E n \in 0..MaxFiles : \E fl \in FileLists(n) :
          /\ files' = fl
          /\ auth_files' = get_auth_files(fl)
          /\ IF get_auth_files(fl) = <<>>
             THEN /\ out' = NoAccountsLines
                  /\ exit_code' = <<0>>
                  /\ pc' = "done"
             ELSE /\ pc' = "fetch"
                  /\ UNCHANGED <<out, exit_code>>
    /\ UNCHANGED <<aggVars, management_key, idx, url, last_error, codex_quotas,
                   ag_quotas, fetched, exc>>

\* fetch_codex_quota returns early (lines 312-317).
FetchCodexRefused ==
    /\ pc = "fetch"
    /\ auth_files[idx].provider = "codex"
    /\ CodexPrecheck(auth_files[idx]) # ""
    /\ codex_quotas' =
          Append(codex_quotas,
                 [CodexQuota(auth_files[idx].email)
                     EXCEPT !.error = CodexPrecheck(auth_files[idx])])
    /\ fetched' = Append(fetched, Fetched(auth_files[idx], 0, NoResponse, "returned",
                                           <<codex_quotas'[Len(codex_quotas')]>>))
    /\ Advance
    /\ UNCHANGED <<aggVars, management_key, files, auth_files, ag_quotas, calls, out,
                   exc, exit_code>>

\* fetch_codex_quota issues its call (lines 319-361).
FetchCodexCall ==
    /\ pc = "fetch"
    /\ auth_files[idx].provider = "codex"
    /\ CodexPrecheck(auth_files[idx]) = ""
    /\ calls' = Append(calls, Call("codex", auth_files[idx].email, 0))
    /\ \E r \in CodexResponses :
          LET t == CodexTry(auth_files[idx], r)
          IN  IF t.raised # ""
              THEN /\ CaughtAtTop("fetch", t.raised)
                   /\ fetched' = Append(fetched, Fetched(auth_files[idx], 1, r, "raised", <<>>))
                   /\ UNCHANGED <<codex_quotas, idx, url, last_error>>
              ELSE /\ codex_quotas' = Append(codex_quotas, t.quota)
                   /\ fetched' = Append(fetched, Fetched(auth_files[idx], 1, r, "returned",
                                                          <<t.quota>>))
                   /\ Advance
                   /\ UNCHANGED <<out, exc, exit_code>>
    /\ UNCHANGED <<aggVars, management_key, files, auth_files, ag_quotas>>

\* fetch_antigravity_quota returns early (lines 377-379).
FetchAntigravityRefused ==
    /\ pc = "fetch"
    /\ auth_files[idx].provider = "antigravity"
    /\ auth_files[idx].auth_index = ""
    /\ ag_quotas' =
          Append(ag_quotas,
                 [AntigravityQuota(auth_files[idx].email) EXCEPT !.error = "missing auth_index"])
    /\ fetched' = Append(fetched, Fetched(auth_files[idx], 0, NoResponse, "returned",
                                           <<ag_quotas'[Len(ag_quotas')]>>))
    /\ Advance
    /\ UNCHANGED <<aggVars, management_key, files, auth_files, codex_quotas, calls, out,
                   exc, exit_code>>

\* One pass of the loop over ANTIGRAVITY_QUOTA_URLS (lines 385-421): the call
\* to the URL at position url and what follows from its outcome, up to the
\* next call or to the return.
AntigravityCall ==
    /\ pc = "fetch"
    /\ auth_files[idx].provider = "antigravity"
    /\ auth_files[idx].auth_index # ""
    /\ calls' = Append(calls, Call("antigravity", auth_files[idx].email, url))
    /\ \E r \in AntigravityResponses :
          /\ aggOut' = IF ReachesBuild(r) THEN build_antigravity_groups(r.ms) ELSE aggOut
          /\ LET t == AntigravityTry(r, aggOut')
                 le == NextLastError(last_error, t.reason)
                 q == AntigravityQuota(auth_files[idx].email)
             IN  IF t.how = "raise"
                 THEN /\ CaughtAtTop("fetch", t.reason)
                      /\ fetched' = Append(fetched, Fetched(auth_files[idx], url, r, "raised", <<>>))
                      /\ UNCHANGED <<ag_quotas, idx, url, last_error>>
                 ELSE IF t.how = "ok"
                 THEN /\ ag_quotas' = Append(ag_quotas, [q EXCEPT !.groups = t.groups])
                      /\ fetched' = Append(fetched, Fetched(auth_files[idx], url, r, "returned",
                                                             <<ag_quotas'[Len(ag_quotas')]>>))
                      /\ Advance
                      /\ UNCHANGED <<out, exc, exit_code>>
                 ELSE IF url < Len(ANTIGRAVITY_QUOTA_URLS)
                 THEN /\ url' = url + 1
                      /\ last_error' = le
                      /\ UNCHANGED <<ag_quotas, fetched, idx, pc, out, exc, exit_code>>
                 ELSE /\ ag_quotas' = Append(ag_quotas, [q EXCEPT !.error = FinalError(le)])
                      /\ fetched' = Append(fetched, Fetched(auth_files[idx], url, r, "returned",
                                                             <<ag_quotas'[Len(ag_quotas')]>>))
                      /\ Advance
                      /\ UNCHANGED <<out, exc, exit_code>>
    /\ UNCHANGED <<aggPc, models, management_key, files, auth_files, codex_quotas>>

\* Step 3 of main and the exit: the output is printed line by line, so what
\* was printed before an exception stays printed.
Render ==
    /\ pc = "render"
    /\ LET r == RenderOutput(codex_quotas, ag_quotas)
       IN  IF r.raised # ""
           THEN /\ out' = out \o r.lines \o print_error(TopLevelMessage(r.raised))
                /\ exc' = [where |-> "render", type |-> r.raised]
           ELSE /\ out' = out \o r.lines
                /\ UNCHANGED exc
    /\ exit_code' = <<0>>
    /\ pc' = "done"
    /\ UNCHANGED <<aggVars, management_key, files, auth_files, idx, url, last_error,
                   codex_quotas, ag_quotas, calls, fetched>>

Next ==
    \/ MissingKey
    \/ ListingFails
    \/ ListingReturns
    \/ FetchCodexRefused
    \/ FetchCodexCall
    \/ FetchAntigravityRefused
    \/ AntigravityCall
    \/ Render

Spec == Init /\ [][Next]_vars


\* --------------------------------------------- aggregation: the properties

Min(S) == CHOOSE x \in S : \A y \in S : x <= y

AggDone == aggPc = "done" /\ aggOut.raised = ""

\* The entries of ms that are dicts with an id configured for the group
\* with this label.
Members(ms, label) ==
    {i \in DOMAIN ms :
        /\ ms[i].info.isdict
        /\ model_to_group(ms[i].id) # 0
        /\ ANTIGRAVITY_GROUPS[model_to_group(ms[i].id)].label = label}

\* Those of them that supplied a fraction (remaining is not None).
Supplied(ms, label) ==
    {i \in Members(ms, label) : ExtractRemaining(ms[i].info).t # "null"}

FracOf(ms, i) == Float(ExtractRemaining(ms[i].info))
ResetOf(ms, i) ==
    IF ResetTruthy(ExtractResetTime(ms[i].info))
    THEN ExtractResetTime(ms[i].info).v
    ELSE ""

MinFrac(ms, label) == Min({FracOf(ms, i) : i \in Supplied(ms, label)})

\* The earliest-seen member holding the group's minimum fraction.
MinMember(ms, label) ==
    Min({i \in Supplied(ms, label) : FracOf(ms, i) = MinFrac(ms, label)})

\* C5: every returned group's remaining_fraction is the minimum of the
\* fractions its members supplied, and None exactly when none supplied one.
C5_FractionIsMinimum ==
    AggDone =>
        \A k \in DOMAIN aggOut.groups :
            LET g == aggOut.groups[k]
            IN  IF Supplied(models, g.group_label) = {}
                THEN g.remaining_fraction = <<>>
                ELSE g.remaining_fraction = <<MinFrac(models, g.group_label)>>

\* C5 witness: a returned group with two members that supplied different
\* fractions, the lower one seen second, and a group no member supplied.
C5_Witness ==
    /\ AggDone
    /\ \E k \in DOMAIN aggOut.groups :
          \E i, j \in Supplied(models, aggOut.groups[k].group_label) :
              /\ i < j
              /\ FracOf(models, j) < FracOf(models, i)
              /\ aggOut.groups[k].remaining_fraction = <<FracOf(models, j)>>
    /\ \E k \in DOMAIN aggOut.groups :
          /\ Supplied(models, aggOut.groups[k].group_label) = {}
          /\ aggOut.groups[k].remaining_fraction = <<>>

Lowering(ms, label) ==
    {i \in Supplied(ms, label) :
        \A j \in Supplied(ms, label) : j < i => FracOf(ms, i) < FracOf(ms, j)}

\* The reset time the group keeps: that of the latest lowering member that
\* carried a non-empty one.
KeptReset(ms, label) ==
    LET R == {i \in Lowering(ms, label) : ResetOf(ms, i) # ""}
    IN  IF R = {} THEN "" ELSE ResetOf(ms, Max(R))

Reorderings(ms) ==
    {[i \in DOMAIN ms |-> ms[p[i]]] :
        p \in {q \in [DOMAIN ms -> DOMAIN ms] :
                  \A i, j \in DOMAIN ms : i # j => q[i] # q[j]}}

Range(f) == {f[i] : i \in DOMAIN f}

\* Two members of the group share its minimum fraction.
TiedMinimum(ms, label) ==
    Cardinality({i \in Supplied(ms, label) :
                    FracOf(ms, i) = MinFrac(ms, label)}) > 1

\* Two outputs agree: same outcome, same groups in the same order with the
\* same members and fractions, and the same reset time in every group for
\* which differing is not excused.
SameGroups(a, b, excused(_)) ==
    /\ a.raised = b.raised
    /\ Len(a.groups) = Len(b.groups)
    /\ \A k \in DOMAIN a.groups :
          /\ a.groups[k].group_label = b.groups[k].group_label
          /\ Range(a.groups[k].models) = Range(b.groups[k].models)
          /\ a.groups[k].remaining_fraction = b.groups[k].remaining_fraction
          /\ \/ a.groups[k].reset_time = b.groups[k].reset_time
             \/ excused(a.groups[k].group_label)

ConfiguredIds(label) ==
    UNION {Range(ANTIGRAVITY_GROUPS[g].ids) :
              g \in {h \in DOMAIN ANTIGRAVITY_GROUPS :
                        ANTIGRAVITY_GROUPS[h].label = label}}

\* The labels of the configured groups.
ConfiguredLabels == {ANTIGRAVITY_GROUPS[g].label : g \in DOMAIN ANTIGRAVITY_GROUPS}

\* The ids of the record entries of ms, in the order of ms.
RECURSIVE RecordIds(_)
RecordIds(ms) ==
    IF ms = <<>> THEN <<>>
    ELSE IF ms[1].info.isdict THEN <<ms[1].id>> \o RecordIds(Tail(ms))
    ELSE RecordIds(Tail(ms))

\* ms without its non-record entries and without the entries whose id no
\* group is configured for.
RECURSIVE GroupedOnly(_)
GroupedOnly(ms) ==
    IF ms = <<>> THEN <<>>
    ELSE IF ms[1].info.isdict /\ \E l \in ConfiguredLabels : ms[1].id \in ConfiguredIds(l)
         THEN <<ms[1]>> \o GroupedOnly(Tail(ms))
         ELSE GroupedOnly(Tail(ms))

\* String a sorts before string b, or equals it: at the first position where
\* they differ a is the one that ended or holds the smaller code point.
NotAfter(a, b) ==
    \/ a = b
    \/ \E k \in 1..(Len(b)) :
          /\ \A j \in 1..(k - 1) : j <= Len(a) /\ a[j] = b[j]
          /\ k > Len(a) \/ a[k] < b[k]

\* C13: the returned list has exactly one entry for each configured group
\* with a record entry of one of its ids in the input and none for any other
\* group; each entry lists exactly those ids, all configured for its group;
\* the list is what the input without its unconfigured and non-record entries
\* gives; and it is sorted ascending by group label.
C13_GroupsPresentAndSorted ==
    AggDone =>
        LET gs == aggOut.groups
            present == {l \in ConfiguredLabels :
                           Range(RecordIds(models)) \cap ConfiguredIds(l) # {}}
        IN  /\ {gs[k].group_label : k \in DOMAIN gs} = present
            /\ \A k, l \in DOMAIN gs : k # l => gs[k].group_label # gs[l].group_label
            /\ \A k \in DOMAIN gs :
                  /\ Range(gs[k].models) \subseteq ConfiguredIds(gs[k].group_label)
                  /\ Range(gs[k].models) =
                         Range(RecordIds(models)) \cap ConfiguredIds(gs[k].group_label)
                  /\ Len(gs[k].models) = Cardinality(Range(gs[k].models))
            /\ gs = build_antigravity_groups(GroupedOnly(models)).groups
            /\ \A k \in 1..(Len(gs) - 1) :
                  NotAfter(LabelCodes(gs[k].group_label),
                           LabelCodes(gs[k + 1].group_label))

\* C13 witness: two groups returned, the one seen first sorted second, with
\* an unconfigured record entry reporting a fraction in the input and no
\* group for it.
C13_Witness ==
    /\ AggDone
    /\ Len(aggOut.groups) = 2
    /\ models[1].id \in ConfiguredIds(aggOut.groups[2].group_label)
    /\ \E i \in DOMAIN models :
          /\ models[i].info.isdict
          /\ \A l \in ConfiguredLabels : models[i].id \notin ConfiguredIds(l)
          /\ ExtractRemaining(models[i].info).t # "null"


\* --------------------------------------------- one run of main: properties

\* The fetch of auth_files[i] is over and this is how it ended.
Result(i) == fetched[i].result[1]

\* The proxied calls issued for one account, in the order they were issued.
CallsOf(kind, who) == SelectSeq(calls, LAMBDA c : c.kind = kind /\ c.who = who)

\* A response with a 2xx status, a non-empty body and a non-empty models
\* mapping.
Succeeds(r) ==
    /\ r.exc = ""
    /\ r.status \in 200..299
    /\ r.bt # "empty"
    /\ r.mt = "dict"
    /\ r.ms # <<>>

\* A failure the loop of fetch_antigravity_quota goes on from: a caught
\* exception, a non-2xx status, an empty body, a body that is no JSON, or a
\* missing, non-mapping or empty models.
CaughtFailure(r) ==
    \/ r.exc \in {"RuntimeError", "JSONDecodeError"}
    \/ /\ r.exc = ""
       /\ \/ r.status \notin 200..299
          \/ r.bt \in {"empty", "invalid"}
          \/ r.bt = "obj" /\ (r.mt # "dict" \/ r.ms = <<>>)

\* The reason a caught failure is reported with.
FailureReason(r) ==
    IF r.exc # "" THEN ExcText(r.exc)
    ELSE IF r.status \notin 200..299 THEN HttpError(r.status)
    ELSE IF r.bt = "empty" THEN "empty response"
    ELSE IF r.bt = "invalid" THEN ExcText("JSONDecodeError")
    ELSE "no models in response"

\* All four usage-window fields of a Codex result are None.
WindowsUnset(q) ==
    /\ q.primary_used_pct = FNull
    /\ q.primary_reset_seconds = FNull
    /\ q.secondary_used_pct = FNull
    /\ q.secondary_reset_seconds = FNull

\* C1: every finished Antigravity fetch of a record with an auth_index
\* issued its calls to the URLs of ANTIGRAVITY_QUOTA_URLS in order, and if its
\* last response had a 2xx status, a non-empty body and a non-empty models
\* mapping, it returned the aggregation of that response's models with no
\* error.
C1_StopsAtFirstSuccess ==
    \A i \in DOMAIN fetched :
        (fetched[i].provider = "antigravity" /\ auth_files[i].auth_index # "")
        => LET cs == CallsOf("antigravity", fetched[i].who)
           IN  /\ Len(cs) = fetched[i].ncalls
               /\ \A k \in DOMAIN cs : cs[k].url = k
               /\ Succeeds(fetched[i].last)
                  => /\ fetched[i].how = "returned"
                     /\ Result(i).error = ""
                     /\ Result(i).groups =
                            build_antigravity_groups(fetched[i].last.ms).groups

\* C2: an Antigravity fetch that called every URL and whose last response
\* was a caught failure returned an error result: the error is the reason of
\* that last failure and groups is empty.
C2_LastReasonReturned ==
    \A i \in DOMAIN fetched :
        (/\ fetched[i].provider = "antigravity"
         /\ fetched[i].ncalls = Len(ANTIGRAVITY_QUOTA_URLS)
         /\ CaughtFailure(fetched[i].last))
        => /\ fetched[i].how = "returned"
           /\ Result(i).error = FailureReason(fetched[i].last)
           /\ Result(i).groups = <<>>

\* C2: an account for which all three endpoints failed has its result.
C2_Witness ==
    \E i \in DOMAIN fetched :
        /\ fetched[i].provider = "antigravity"
        /\ fetched[i].ncalls = Len(ANTIGRAVITY_QUOTA_URLS)
        /\ CaughtFailure(fetched[i].last)
        /\ fetched[i].how = "returned"
        /\ Len(CallsOf("antigravity", fetched[i].who)) = Len(ANTIGRAVITY_QUOTA_URLS)
        /\ Result(i).error = "no models in response"

\* C3: a Codex record with an empty auth_index or an empty
\* chatgpt_account_id gets an error result with the exact message,
\* "missing auth_index" checked first, all window fields unset, and no
\* proxied call was issued for it.
C3_RefusedWithoutCall ==
    \A i \in DOMAIN fetched :
        (/\ auth_files[i].provider = "codex"
         /\ (auth_files[i].auth_index = "" \/ auth_files[i].chatgpt_account_id = ""))
        => /\ fetched[i].how = "returned"
           /\ CallsOf("codex", fetched[i].who) = <<>>
           /\ Result(i).error =
                  IF auth_files[i].auth_index = "" THEN "missing auth_index"
                  ELSE "missing chatgpt_account_id"
           /\ WindowsUnset(Result(i))

\* C3: one record lacking both fields and one lacking only the account id
\* were refused.
C3_Witness ==
    \E i, j \in DOMAIN fetched :
        /\ auth_files[i].provider = "codex"
        /\ auth_files[i].auth_index = ""
        /\ auth_files[i].chatgpt_account_id = ""
        /\ Result(i).error = "missing auth_index"
        /\ auth_files[j].provider = "codex"
        /\ auth_files[j].auth_index # ""
        /\ Result(j).error = "missing chatgpt_account_id"

\* C4: no fetch ever ends by raising to main: every finished fetch returned
\* a result, and no exception of a fetcher reached the handlers of main.
C4_FetchersNeverRaise ==
    /\ \A i \in DOMAIN fetched : fetched[i].how = "returned"
    /\ exc.where # "fetch"

\* C8, as stated: every returned result has exactly one of an error and
\* quota data: a non-empty error with all quota fields unset, or an empty
\* error with quota data.
C8_ExactlyOnePopulated ==
    \A i \in DOMAIN fetched :
        fetched[i].how = "returned"
        => IF fetched[i].provider = "codex"
           THEN (Result(i).error # "") <=> WindowsUnset(Result(i))
           ELSE (Result(i).error # "") <=> (Result(i).groups = <<>>)

\* C8, amended: a returned result with a non-empty error has all quota
\* fields unset (so at most one of the two is populated).
C8_ErrorMeansNoData ==
    \A i \in DOMAIN fetched :
        (fetched[i].how = "returned" /\ Result(i).error # "")
        => IF fetched[i].provider = "codex"
           THEN WindowsUnset(Result(i))
           ELSE Result(i).groups = <<>>

\* C8: a Codex call and an Antigravity call each ended in an error result.
C8_Witness ==
    \E i, j \in DOMAIN fetched :
        /\ fetched[i].provider = "codex"
        /\ fetched[i].ncalls = 1
        /\ fetched[i].how = "returned"
        /\ Result(i).error # ""
        /\ fetched[j].provider = "antigravity"
        /\ fetched[j].ncalls > 0
        /\ fetched[j].how = "returned"
        /\ Result(j).error # ""

\* The (provider, email) pairs of a list of entries or records.
Identities(seq) == [i \in DOMAIN seq |-> <<seq[i].provider, seq[i].email>>]
Emails(seq) == [i \in DOMAIN seq |-> seq[i].email]

\* C9: once the run is over after a directory response, auth_files holds
\* exactly the entries of a supported provider, in the order of the response,
\* and each provider's result list holds one result per such record, in that
\* order.
C9_OneResultPerRecord ==
    (pc = "done" /\ management_key # "" /\ exc.where # "listing")
    => /\ Identities(auth_files) =
              Identities(SelectSeq(files,
                                   LAMBDA it : it.provider \in {"codex", "antigravity"}))
       /\ auth_files # <<>>
          => /\ Emails(codex_quotas) =
                    Emails(SelectSeq(auth_files, LAMBDA af : af.provider = "codex"))
             /\ Emails(ag_quotas) =
                    Emails(SelectSeq(auth_files, LAMBDA af : af.provider = "antigravity"))

\* C10: when an exception reached the handlers of main, the whole output is
\* the error state of print_error (tagged "Unexpected:" unless it is the
\* RuntimeError of a transport error), the exit code is 0, and after a
\* listing failure no proxied call was made.
C10_SingleErrorState ==
    (pc = "done" /\ exc.where # "")
    => /\ out = print_error(IF exc.type = "RuntimeError" THEN ExcText(exc.type)
                            ELSE "Unexpected: " \o ExcText(exc.type))
       /\ exit_code = <<0>>
       /\ exc.where = "listing" => calls = <<Call("list", 0, 0)>>

\* The run printed its title line.
TitlePrinted == pc = "done" /\ out # <<>> /\ out[1].kind = "title"

\* The fractions of the groups of an Antigravity result that have one.
FractionsOf(a) ==
    {a.groups[k].remaining_fraction[1] :
        k \in {j \in DOMAIN a.groups : a.groups[j].remaining_fraction # <<>>}}

\* Result lists that agree with qs on the first result: the rest removed,
\* doubled, reversed, or replaced by a result with an error.
SameFirst(qs) ==
    IF qs = <<>> THEN {qs}
    ELSE {<<qs[1]>> \o t :
             t \in {<<>>, Tail(qs), Tail(qs) \o Tail(qs), qs,
                    <<[qs[1] EXCEPT !.error = "HTTP 500"]>>}}

\* C11: the title printed shows, for Codex, 100 minus the first result's
\* primary used-percentage, or "?" when that is unset; for Antigravity, a
\* warning when the first result has an error, "?" when it has no groups or
\* no group has a fraction, else the rounded minimum of its groups'
\* fractions; and print_status_bar gives the same title for every other pair
\* of result lists with the same first results.
C11_TitleFromFirstResults ==
    TitlePrinted =>
        LET t == out[1]
        IN  /\ codex_quotas = <<>> => t.s = "none"
            /\ codex_quotas # <<>> =>
                  IF codex_quotas[1].primary_used_pct = FNull THEN t.s = "?"
                  ELSE /\ t.s \in {"pct", "limit"}
                       /\ t.n = 100 - codex_quotas[1].primary_used_pct.v
            /\ ag_quotas = <<>> => t.s2 = "none"
            /\ ag_quotas # <<>> =>
                  IF ag_quotas[1].error # "" THEN t.s2 = "warn"
                  ELSE IF FractionsOf(ag_quotas[1]) = {} THEN t.s2 = "?"
                  ELSE /\ t.s2 = "pct"
                       /\ t.n2 = Pct(Min(FractionsOf(ag_quotas[1])))
            /\ \A cq \in SameFirst(codex_quotas) : \A aq \in SameFirst(ag_quotas) :
                  print_status_bar(cq, aq) = Printed(<<t>>)

\* C11 witness: a title printed for two Codex results, the first with a
\* used-percentage and the second without one.
C11_Witness ==
    /\ TitlePrinted
    /\ Len(codex_quotas) = 2
    /\ codex_quotas[1].primary_used_pct.t = "num"
    /\ codex_quotas[2].primary_used_pct = FNull
    /\ out[1].s = "pct"

\* The number of proxied calls issued for the account of a record.
ProxiedCalls(af) ==
    Len(SelectSeq(calls, LAMBDA c : c.kind # "list" /\ c.who = af.email))

\* The calls a record is due: one for a Codex record with both fields, none
\* for one without; one to len(ANTIGRAVITY_QUOTA_URLS) for an Antigravity
\* record with an auth_index, none for one without.
CallsDue(af) ==
    IF af.provider = "codex"
    THEN IF af.auth_index # "" /\ af.chatgpt_account_id # "" THEN {1} ELSE {0}
    ELSE IF af.auth_index # "" THEN 1..Len(ANTIGRAVITY_QUOTA_URLS) ELSE {0}

\* The calls are the listing call, then the proxied calls record by record in
\* list order, those of an Antigravity record in URL order.
CallsSequential ==
    /\ calls # <<>> => calls[1] = Call("list", 0, 0)
    /\ \A k \in 2..Len(calls) :
          /\ calls[k].kind # "list"
          /\ \E i \in DOMAIN auth_files :
                /\ auth_files[i].email = calls[k].who
                /\ auth_files[i].provider = calls[k].kind
          /\ k > 2 =>
                \/ calls[k - 1].who < calls[k].who
                \/ /\ calls[k - 1].who = calls[k].who
                   /\ calls[k].kind = "antigravity"
                   /\ calls[k].url = calls[k - 1].url + 1

\* C12: the calls are sequential and in order; nothing of the quota output
\* is printed before every record's fetch has returned; and when the run is
\* over after a directory response, every record got the calls it is due.
C12_CallsInOrderAndBounded ==
    /\ CallsSequential
    /\ (\E k \in DOMAIN out : out[k].kind = "title")
          => /\ Len(fetched) = Len(auth_files)
             /\ \A i \in DOMAIN fetched : fetched[i].how = "returned"
    /\ (pc = "done" /\ management_key # "" /\ exc.where # "listing")
          => /\ Len(calls) >= 1
             /\ \A i \in DOMAIN auth_files :
                   ProxiedCalls(auth_files[i]) \in CallsDue(auth_files[i])

====
